---- MODULE Spec2Model ----
(***************************************************************************)
(* Model of the Cortex exporter's configuration validation                 *)
(* (exporters/metric/cortex/config.go, Config.Validate) and of the         *)
(* request authentication exercised by auth_test.go (Exporter.addHeaders). *)
(*                                                                         *)
(* Strings that the program only compares are TLA+ strings.  Strings the   *)
(* program takes apart, joins or encodes (proxy URLs, credentials, file    *)
(* paths, header values) are sequences of one-character strings.           *)
(* Durations are counted in milliseconds.                                  *)
(***************************************************************************)
EXTENDS Integers, Sequences, FiniteSets, TLC

VARIABLES cfg, hist, nextPtr, fs, sent

vars == <<cfg, hist, nextPtr, fs, sent>>

(***************************************************************************)
(* Bounds of the model.                                                    *)
(***************************************************************************)
\* Number of Validate calls made on one Config.
MaxCalls == 2
\* Number of addHeaders calls (requests decorated) on one Config.
MaxRequests == 1

(***************************************************************************)
(* Program constants.                                                      *)
(***************************************************************************)
\* time.Second, in the model's unit (milliseconds).
Second == 1000

DefaultEndpoint == "/api/prom/push"
DefaultRemoteTimeout == 30 * Second
DefaultPushInterval == 10 * Second

\* The error values.  nil is Nil.
Nil == "nil"
ErrTwoPasswords == "Cannot have two passwords in the YAML file"
ErrTwoBearerTokens == "Cannot have two bearer tokens in the YAML file"
ErrMissingScheme == "parse: missing protocol scheme"
ErrColonInFirstSegment == "parse: first path segment in URL cannot contain colon"
ErrInvalidEscape == "parse: invalid URL escape"
ErrInvalidPort == "parse: invalid port after host"
ErrNoBasicAuthUsername == "ErrNoBasicAuthUsername"
ErrNoBasicAuthPassword == "ErrNoBasicAuthPassword"
ErrFailedToReadFile == "ErrFailedToReadFile"

ParseErrors == {ErrMissingScheme, ErrColonInFirstSegment, ErrInvalidEscape, ErrInvalidPort}

(***************************************************************************)
(* Go maps of strings: a nil map or a function on the keys present.        *)
(* Reading a key that is absent, or any key of a nil map, gives "".        *)
(***************************************************************************)
NilMap == [isNil |-> TRUE, m |-> <<>>]

MakeMap(f) == [isNil |-> FALSE, m |-> f]

MapGet(mp, k) == IF k \in DOMAIN mp.m THEN mp.m[k] ELSE <<>>

(***************************************************************************)
(* net/url.Parse on a sequence of characters.                              *)
(***************************************************************************)
Letters == {"h", "p"}
Digits == {"1", "8"}
HexDigits == Digits

NoURL == [Scheme |-> <<>>, Opaque |-> <<>>, Host |-> <<>>, Path |-> <<>>]

\* strings.Index for a single character: the first position of ch in s, or 0.
RECURSIVE IndexFrom(_, _, _)
IndexFrom(s, ch, i) ==
    IF i > Len(s) THEN 0
    ELSE IF s[i] = ch THEN i
    ELSE IndexFrom(s, ch, i + 1)

Index(s, ch) == IndexFrom(s, ch, 1)

HasPrefix(s, p) == Len(s) >= Len(p) /\ SubSeq(s, 1, Len(p)) = p

Tail2(s, i) == SubSeq(s, i, Len(s))

\* getScheme: [err, scheme, rest].
RECURSIVE GetSchemeAt(_, _)
GetSchemeAt(s, i) ==
    IF i > Len(s) THEN [err |-> Nil, scheme |-> <<>>, rest |-> s]
    ELSE IF s[i] \in Letters THEN GetSchemeAt(s, i + 1)
    ELSE IF s[i] \in Digits \cup {"+", "-", "."}
         THEN IF i = 1 THEN [err |-> Nil, scheme |-> <<>>, rest |-> s]
              ELSE GetSchemeAt(s, i + 1)
    ELSE IF s[i] = ":"
         THEN IF i = 1 THEN [err |-> ErrMissingScheme, scheme |-> <<>>, rest |-> <<>>]
              ELSE [err |-> Nil, scheme |-> SubSeq(s, 1, i - 1), rest |-> Tail2(s, i + 1)]
    ELSE [err |-> Nil, scheme |-> <<>>, rest |-> s]

GetScheme(s) == GetSchemeAt(s, 1)

\* unescape's validation pass: every % is followed by two hex digits.
RECURSIVE ValidEscapesFrom(_, _)
ValidEscapesFrom(s, i) ==
    IF i > Len(s) THEN TRUE
    ELSE IF s[i] = "%"
         THEN /\ i + 2 <= Len(s)
              /\ s[i + 1] \in HexDigits
              /\ s[i + 2] \in HexDigits
              /\ ValidEscapesFrom(s, i + 3)
    ELSE ValidEscapesFrom(s, i + 1)

ValidEscapes(s) == ValidEscapesFrom(s, 1)

\* validOptionalPort: "" or ":" followed by digits only.
ValidOptionalPort(p) ==
    \/ p = <<>>
    \/ /\ p[1] = ":"
       /\ \A i \in 2..Len(p) : p[i] \in Digits

\* parseHost for hosts without brackets: the part from the last colon is a port.
RECURSIVE LastIndexFrom(_, _, _)
LastIndexFrom(s, ch, i) ==
    IF i < 1 THEN 0
    ELSE IF s[i] = ch THEN i
    ELSE LastIndexFrom(s, ch, i - 1)

LastIndex(s, ch) == LastIndexFrom(s, ch, Len(s))

ParseHostErr(host) ==
    LET i == LastIndex(host, ":") IN
    IF i > 0 /\ ~ValidOptionalPort(Tail2(host, i)) THEN ErrInvalidPort
    ELSE IF ~ValidEscapes(host) THEN ErrInvalidEscape
    ELSE Nil

\* url.Parse(rawURL): [err, url].  The model's alphabet has no "#", no "?",
\* no "@" and no control character, so the fragment, query and userinfo
\* branches are never taken.
ParseURL(rawURL) ==
    LET gs == GetScheme(rawURL)
        rest == gs.rest
        fail(e) == [err |-> e, url |-> NoURL]
    IN
    IF gs.err # Nil THEN fail(gs.err)
    ELSE IF ~HasPrefix(rest, <<"/">>) /\ gs.scheme # <<>>
         THEN [err |-> Nil, url |-> [NoURL EXCEPT !.Scheme = gs.scheme, !.Opaque = rest]]
    ELSE IF /\ ~HasPrefix(rest, <<"/">>)
            /\ LET slash == Index(rest, "/")
                   segment == IF slash = 0 THEN rest ELSE SubSeq(rest, 1, slash - 1)
               IN  Index(segment, ":") > 0
         THEN fail(ErrColonInFirstSegment)
    ELSE IF HasPrefix(rest, <<"/", "/">>) /\ ~(gs.scheme = <<>> /\ HasPrefix(rest, <<"/", "/", "/">>))
         THEN LET auth0 == Tail2(rest, 3)
                  slash == Index(auth0, "/")
                  authority == IF slash = 0 THEN auth0 ELSE SubSeq(auth0, 1, slash - 1)
                  path == IF slash = 0 THEN <<>> ELSE Tail2(auth0, slash)
              IN  IF ParseHostErr(authority) # Nil THEN fail(ParseHostErr(authority))
                  ELSE IF ~ValidEscapes(path) THEN fail(ErrInvalidEscape)
                  ELSE [err |-> Nil,
                        url |-> [NoURL EXCEPT !.Scheme = gs.scheme, !.Host = authority, !.Path = path]]
    ELSE IF ~ValidEscapes(rest) THEN fail(ErrInvalidEscape)
    ELSE [err |-> Nil, url |-> [NoURL EXCEPT !.Scheme = gs.scheme, !.Path = rest]]

(***************************************************************************)
(* *http.Client values.  A pointer is nil, http.DefaultClient, a client    *)
(* the caller made, or a client Validate built (ptr tells allocations      *)
(* apart; proxy is the URL its transport's Proxy function returns).        *)
(***************************************************************************)
NilClient == [kind |-> "nil", ptr |-> 0, hasProxy |-> FALSE, proxy |-> NoURL]
DefaultClient == [kind |-> "default", ptr |-> 0, hasProxy |-> FALSE, proxy |-> NoURL]
PresetClient == [kind |-> "preset", ptr |-> 0, hasProxy |-> FALSE, proxy |-> NoURL]

\* &http.Client{Transport: &http.Transport{Proxy: http.ProxyURL(u), ...}}
NewProxyClient(u, ptr) == [kind |-> "built", ptr |-> ptr, hasProxy |-> TRUE, proxy |-> u]

(***************************************************************************)
(* Config.Validate.                                                        *)
(***************************************************************************)
\* CheckExclusive without the check of the two passwords.
CheckExclusive_NoPasswords(c) ==
    IF c.BearerToken # <<>> /\ c.BearerTokenFile # <<>> THEN ErrTwoBearerTokens
    ELSE Nil

\* CheckExclusive returning the passwords' error for the bearer tokens too.
CheckExclusive_SameError(c) ==
    IF c.BearerToken # <<>> /\ c.BearerTokenFile # <<>> THEN ErrTwoPasswords
    ELSE IF MapGet(c.BasicAuth, "password") # <<>> /\ MapGet(c.BasicAuth, "password_file") # <<>>
         THEN ErrTwoPasswords
    ELSE Nil

\* The check for mutually exclusive properties: the error returned, or Nil.
CheckExclusive(c) ==
    IF c.BearerToken # <<>> /\ c.BearerTokenFile # <<>> THEN ErrTwoBearerTokens
    ELSE IF MapGet(c.BasicAuth, "password") # <<>> /\ MapGet(c.BasicAuth, "password_file") # <<>>
         THEN ErrTwoPasswords
    ELSE Nil

\* AddDefaults with the two durations' defaults exchanged.
AddDefaults_Swapped(c) ==
    [c EXCEPT !.Endpoint = IF c.Endpoint = "" THEN DefaultEndpoint ELSE c.Endpoint,
              !.RemoteTimeout = IF c.RemoteTimeout = 0 THEN DefaultPushInterval ELSE c.RemoteTimeout,
              !.PushInterval = IF c.PushInterval = 0 THEN DefaultRemoteTimeout ELSE c.PushInterval]

\* The default values for missing properties.
AddDefaults(c) ==
    [c EXCEPT !.Endpoint = IF c.Endpoint = "" THEN DefaultEndpoint ELSE c.Endpoint,
              !.RemoteTimeout = IF c.RemoteTimeout = 0 THEN DefaultRemoteTimeout ELSE c.RemoteTimeout,
              !.PushInterval = IF c.PushInterval = 0 THEN DefaultPushInterval ELSE c.PushInterval]

\* SetClient that never builds the proxy client.
SetClient_NoProxy(c, ptr) ==
    IF c.Client = NilClient
    THEN [err |-> Nil, cfg |-> [c EXCEPT !.Client = DefaultClient]]
    ELSE [err |-> Nil, cfg |-> c]

\* SetClient whose fallback to the default client does not test Client for nil.
SetClient_AlwaysDefault(c, ptr) ==
    IF c.Client = NilClient /\ c.ProxyURL # <<>>
    THEN LET parsed == ParseURL(c.ProxyURL) IN
         IF parsed.err # Nil THEN [err |-> parsed.err, cfg |-> c]
         ELSE [err |-> Nil, cfg |-> [c EXCEPT !.Client = NewProxyClient(parsed.url, ptr)]]
    ELSE [err |-> Nil, cfg |-> [c EXCEPT !.Client = DefaultClient]]

\* SetClient whose proxy branch does not test Client for nil.
SetClient_Rebuild(c, ptr) ==
    IF c.ProxyURL # <<>>
    THEN LET parsed == ParseURL(c.ProxyURL) IN
         IF parsed.err # Nil THEN [err |-> parsed.err, cfg |-> c]
         ELSE [err |-> Nil, cfg |-> [c EXCEPT !.Client = NewProxyClient(parsed.url, ptr)]]
    ELSE IF c.Client = NilClient
         THEN [err |-> Nil, cfg |-> [c EXCEPT !.Client = DefaultClient]]
    ELSE [err |-> Nil, cfg |-> c]

\* The client: [err, cfg] from a Config whose defaults are filled in.
SetClient(c, ptr) ==
    IF c.Client = NilClient /\ c.ProxyURL # <<>>
    THEN LET parsed == ParseURL(c.ProxyURL) IN
         IF parsed.err # Nil THEN [err |-> parsed.err, cfg |-> c]
         ELSE [err |-> Nil, cfg |-> [c EXCEPT !.Client = NewProxyClient(parsed.url, ptr)]]
    ELSE IF c.Client = NilClient
         THEN [err |-> Nil, cfg |-> [c EXCEPT !.Client = DefaultClient]]
    ELSE [err |-> Nil, cfg |-> c]

\* Validate that fills in the defaults before it checks the exclusive properties.
Validate_DefaultsFirst(c, ptr) ==
    IF CheckExclusive(c) # Nil THEN [err |-> CheckExclusive(c), cfg |-> AddDefaults(c)]
    ELSE SetClient(AddDefaults(c), ptr)

\* Validate on the Config c: the error returned and the Config it leaves.
Validate(c, ptr) ==
    IF CheckExclusive(c) # Nil THEN [err |-> CheckExclusive(c), cfg |-> c]
    ELSE SetClient(AddDefaults(c), ptr)

(***************************************************************************)
(* The file system the credentials are read from: a path that is present   *)
(* maps to its contents; ioutil.ReadFile fails on any other path.          *)
(***************************************************************************)
PasswordFile == <<"f">>
MissingPasswordFile == <<"m">>
BearerTokenFile == <<"g">>
MissingBearerTokenFile == <<"n">>

TestUser == <<"U">>
TestPassword == <<"P", "W">>
TestToken == <<"T">>

\* ioutil.ReadFile: the contents and a nil error, or no contents and an error.
ErrNotExist == "open: no such file or directory"

ReadFile(files, path) ==
    IF path \in DOMAIN files THEN [err |-> Nil, data |-> files[path]]
    ELSE [err |-> ErrNotExist, data |-> <<>>]

(***************************************************************************)
(* encoding/base64 StdEncoding.                                            *)
(***************************************************************************)
\* The byte value of each character a credential is written with.
Ord == ("U" :> 85) @@ ("P" :> 80) @@ ("W" :> 87) @@ ("T" :> 84) @@ (":" :> 58)

Base64Alphabet ==
    << "A", "B", "C", "D", "E", "F", "G", "H", "I", "J", "K", "L", "M",
       "N", "O", "P", "Q", "R", "S", "T", "U", "V", "W", "X", "Y", "Z",
       "a", "b", "c", "d", "e", "f", "g", "h", "i", "j", "k", "l", "m",
       "n", "o", "p", "q", "r", "s", "t", "u", "v", "w", "x", "y", "z",
       "0", "1", "2", "3", "4", "5", "6", "7", "8", "9", "+", "/" >>

Sextet(n) == Base64Alphabet[n + 1]

\* EncodeToString: three bytes give four characters; a last group of one
\* or two bytes is padded with "=".
RECURSIVE Base64Encode(_)
Base64Encode(s) ==
    IF Len(s) = 0 THEN <<>>
    ELSE IF Len(s) = 1
         THEN LET b0 == Ord[s[1]] IN
              << Sextet(b0 \div 4), Sextet((b0 % 4) * 16), "=", "=" >>
    ELSE IF Len(s) = 2
         THEN LET b0 == Ord[s[1]]
                  b1 == Ord[s[2]]
              IN  << Sextet(b0 \div 4), Sextet((b0 % 4) * 16 + b1 \div 16),
                     Sextet((b1 % 16) * 4), "=" >>
    ELSE LET b0 == Ord[s[1]]
             b1 == Ord[s[2]]
             b2 == Ord[s[3]]
         IN  << Sextet(b0 \div 4), Sextet((b0 % 4) * 16 + b1 \div 16),
                Sextet((b1 % 16) * 4 + b2 \div 64), Sextet(b2 % 64) >>
             \o Base64Encode(SubSeq(s, 4, Len(s)))

(***************************************************************************)
(* Exporter.addHeaders: the Authorization header of one outgoing request.  *)
(***************************************************************************)
BasicPrefix == <<"B", "a", "s", "i", "c", " ">>
BearerPrefix == <<"B", "e", "a", "r", "e", "r", " ">>

BasicConfigured(c) == ~c.BasicAuth.isNil

BearerConfigured(c) == c.BearerToken # <<>> \/ c.BearerTokenFile # <<>>

\* Basic auth: the password, given directly or read from the password file.
BasicAuthPassword(c, files) ==
    LET passwordFile == MapGet(c.BasicAuth, "password_file") IN
    IF passwordFile # <<>> THEN ReadFile(files, passwordFile).data
    ELSE MapGet(c.BasicAuth, "password")

\* BasicAuthHeader that joins username and password without the colon.
BasicAuthHeader_NoColon(c, files) ==
    BasicPrefix \o Base64Encode(MapGet(c.BasicAuth, "username") \o BasicAuthPassword(c, files))

\* Basic auth: the standard encoding of username and password.
BasicAuthHeader(c, files) ==
    BasicPrefix \o Base64Encode(MapGet(c.BasicAuth, "username") \o <<":">> \o BasicAuthPassword(c, files))

\* Bearer token: the token, given directly or read from the token file.
BearerTokenValue(c, files) ==
    IF c.BearerTokenFile # <<>> THEN ReadFile(files, c.BearerTokenFile).data ELSE c.BearerToken

BearerTokenHeader(c, files) == BearerPrefix \o BearerTokenValue(c, files)

\* FileError that reads the password file only.
FileError_PasswordFileOnly(c, files) ==
    IF /\ BasicConfigured(c)
       /\ MapGet(c.BasicAuth, "password_file") # <<>>
       /\ ReadFile(files, MapGet(c.BasicAuth, "password_file")).err # Nil
    THEN ErrFailedToReadFile ELSE Nil

\* The failure of reading a credential file: the password file of basic
\* auth or the bearer token file is configured and cannot be read.
FileError(c, files) ==
    IF \/ /\ BasicConfigured(c)
          /\ MapGet(c.BasicAuth, "password_file") # <<>>
          /\ ReadFile(files, MapGet(c.BasicAuth, "password_file")).err # Nil
       \/ /\ c.BearerTokenFile # <<>>
          /\ ReadFile(files, c.BearerTokenFile).err # Nil
    THEN ErrFailedToReadFile ELSE Nil

\* BasicAuthError that accepts basic auth without a password source.
BasicAuthError_NoPasswordCheck(c) ==
    IF BasicConfigured(c) /\ MapGet(c.BasicAuth, "username") = <<>>
    THEN ErrNoBasicAuthUsername ELSE Nil

\* The failure of basic auth's credentials: an empty username, or else no
\* password source.
BasicAuthError(c) ==
    IF BasicConfigured(c) /\ MapGet(c.BasicAuth, "username") = <<>>
    THEN ErrNoBasicAuthUsername
    ELSE IF /\ BasicConfigured(c)
            /\ MapGet(c.BasicAuth, "password") = <<>>
            /\ MapGet(c.BasicAuth, "password_file") = <<>>
         THEN ErrNoBasicAuthPassword
    ELSE Nil

\* The error addHeaders returns on c, or Nil.  A credential file that cannot
\* be read yields the unreadable-file error whatever the mode and whatever
\* else is configured; otherwise basic auth's credentials decide.
AuthError(c, files) ==
    IF FileError(c, files) # Nil THEN FileError(c, files) ELSE BasicAuthError(c)

\* The Authorization values addHeaders may set on c when nothing fails: one
\* per configured mode.
AuthHeaders(c, files) ==
    (IF BasicConfigured(c) THEN {BasicAuthHeader(c, files)} ELSE {})
    \cup (IF BearerConfigured(c) THEN {BearerTokenHeader(c, files)} ELSE {})

\* The outcomes of addHeaders on a request without an Authorization header:
\* the error returned and the Authorization values of the request afterwards.
\* With both modes configured the contract does not say which of the two
\* headers is set: either is an outcome.
AddHeaders(c, files) ==
    IF AuthError(c, files) # Nil
    THEN {[err |-> AuthError(c, files), auth |-> <<>>]}
    ELSE IF AuthHeaders(c, files) = {}
         THEN {[err |-> Nil, auth |-> <<>>]}
    ELSE {[err |-> Nil, auth |-> <<h>>] : h \in AuthHeaders(c, files)}

(***************************************************************************)
(* The state machine.                                                      *)
(*   cfg      the Config                                                   *)
(*   hist     one record per Validate call made: the Config before, the    *)
(*            Config after and the error returned                          *)
(*   nextPtr  the next fresh *http.Client allocation                       *)
(*   fs       the file system                                              *)
(*   sent     one record per addHeaders call made: the error returned and  *)
(*            the request's Authorization values                           *)
(***************************************************************************)
Files == (PasswordFile :> TestPassword) @@ (BearerTokenFile :> TestToken)

BasicAuthMaps(usernames, passwords, passwordFiles) ==
    {NilMap} \cup
    {MakeMap([k \in keys |-> IF k = "username" THEN u ELSE IF k = "password" THEN p ELSE f]) :
        keys \in SUBSET {"username", "password", "password_file"},
        u \in usernames, p \in passwords, f \in passwordFiles}

ProxyURLs ==
    { <<>>,
      <<"1", ".", "1">>,
      <<"h", ":", "/", "/", "p", ":", "8">>,
      <<"h", ":", "/", "/", "p", ":", "h">>,
      <<":", "p">>,
      <<"1", ":", "8">>,
      <<"/", "%", "h">> }

Configs(endpoints, timeouts, intervals, basicAuths, tokens, tokenFiles, proxies, clients) ==
    [Endpoint : endpoints, RemoteTimeout : timeouts, Name : {"cortex"},
     BasicAuth : basicAuths, BearerToken : tokens, BearerTokenFile : tokenFiles,
     TLSConfig : {NilMap}, ProxyURL : proxies, PushInterval : intervals,
     Headers : {NilMap}, Client : clients]

InitCommon ==
    /\ hist = <<>>
    /\ nextPtr = 1
    /\ fs = Files
    /\ sent = <<>>

\* Configs that vary in what Validate reads.
Init ==
    /\ cfg \in Configs({"", DefaultEndpoint, "http://cortex/push"},
                       {0, DefaultRemoteTimeout, 123 * Second},
                       {0, DefaultPushInterval, 5 * Second},
                       BasicAuthMaps({TestUser}, {TestPassword}, {PasswordFile}),
                       {<<>>, TestToken}, {<<>>, BearerTokenFile},
                       ProxyURLs, {NilClient, DefaultClient, PresetClient})
    /\ InitCommon

\* Configs that vary in what addHeaders reads.
InitAuth ==
    /\ cfg \in Configs({""}, {0}, {0},
                       BasicAuthMaps({TestUser}, {TestPassword}, {PasswordFile, MissingPasswordFile}),
                       {<<>>, TestToken}, {<<>>, BearerTokenFile, MissingBearerTokenFile},
                       {<<>>}, {NilClient})
    /\ InitCommon

ValidateCall ==
    /\ Len(hist) < MaxCalls
    /\ LET r == Validate(cfg, nextPtr) IN
       /\ cfg' = r.cfg
       /\ hist' = Append(hist, [pre |-> cfg, post |-> r.cfg, ret |-> r.err])
       /\ nextPtr' = IF r.cfg.Client # cfg.Client /\ r.cfg.Client.kind = "built"
                     THEN nextPtr + 1 ELSE nextPtr
    /\ UNCHANGED <<fs, sent>>

\* A request is decorated once the configuration has been validated.
AddHeadersCall ==
    /\ Len(hist) > 0
    /\ hist[Len(hist)].ret = Nil
    /\ Len(sent) < MaxRequests
    /\ \E r \in AddHeaders(cfg, fs) : sent' = Append(sent, r)
    /\ UNCHANGED <<cfg, hist, nextPtr, fs>>

Next == ValidateCall \/ AddHeadersCall

Spec == Init /\ [][Next]_vars

SpecAuth == InitAuth /\ [][Next]_vars

(***************************************************************************)
(* Properties of Config.Validate.  hist[i].pre is the Config the i-th call *)
(* was made on, hist[i].post the Config it left, hist[i].ret its error.    *)
(***************************************************************************)
Calls == 1..Len(hist)

TwoPasswords(c) ==
    MapGet(c.BasicAuth, "password") # <<>> /\ MapGet(c.BasicAuth, "password_file") # <<>>

TwoBearerTokens(c) == c.BearerToken # <<>> /\ c.BearerTokenFile # <<>>

\* C1, as stated: whenever password and password_file are both non-empty,
\* Validate returns ErrTwoPasswords, whatever the other fields hold.
C1_TwoPasswordsAlways ==
    \A i \in Calls : TwoPasswords(hist[i].pre) => hist[i].ret = ErrTwoPasswords

\* C1, amended: whenever password and password_file are both non-empty,
\* Validate returns ErrTwoPasswords unless bearer_token and bearer_token_file
\* are both non-empty as well, and then it returns ErrTwoBearerTokens.
C1_TwoPasswords ==
    \A i \in Calls :
        TwoPasswords(hist[i].pre) =>
            hist[i].ret = IF TwoBearerTokens(hist[i].pre) THEN ErrTwoBearerTokens
                          ELSE ErrTwoPasswords

C1_Witness ==
    \E i \in Calls :
        /\ TwoPasswords(hist[i].pre)
        /\ hist[i].pre.BearerToken # <<>>
        /\ hist[i].pre.Client = PresetClient
        /\ hist[i].ret = ErrTwoPasswords

\* C2: whenever bearer_token and bearer_token_file are both non-empty,
\* Validate returns ErrTwoBearerTokens, an error other than ErrTwoPasswords;
\* when neither pair is doubly set it returns neither of the two errors.
C2_TwoBearerTokens ==
    /\ ErrTwoBearerTokens # ErrTwoPasswords
    /\ \A i \in Calls :
        /\ TwoBearerTokens(hist[i].pre) =>
               hist[i].ret = ErrTwoBearerTokens /\ hist[i].ret # ErrTwoPasswords
        /\ (~TwoBearerTokens(hist[i].pre) /\ ~TwoPasswords(hist[i].pre)) =>
               hist[i].ret \notin {ErrTwoBearerTokens, ErrTwoPasswords}

C2_Witness ==
    \E i \in Calls :
        /\ TwoBearerTokens(hist[i].pre)
        /\ TwoPasswords(hist[i].pre)
        /\ hist[i].ret = ErrTwoBearerTokens

\* C3: after Validate returns nil, each of Endpoint, RemoteTimeout and
\* PushInterval holds its default exactly if it was unset or already the
\* default before the call, and any other value is kept.
C3_Defaults ==
    \A i \in Calls :
        hist[i].ret = Nil =>
            LET pre == hist[i].pre
                post == hist[i].post
            IN  /\ post.Endpoint = "/api/prom/push" <=> pre.Endpoint \in {"", "/api/prom/push"}
                /\ post.RemoteTimeout = 30 * Second <=> pre.RemoteTimeout \in {0, 30 * Second}
                /\ post.PushInterval = 10 * Second <=> pre.PushInterval \in {0, 10 * Second}
                /\ pre.Endpoint \notin {"", "/api/prom/push"} => post.Endpoint = pre.Endpoint
                /\ pre.RemoteTimeout \notin {0, 30 * Second} => post.RemoteTimeout = pre.RemoteTimeout
                /\ pre.PushInterval \notin {0, 10 * Second} => post.PushInterval = pre.PushInterval

C3_Witness ==
    \E i \in Calls :
        /\ hist[i].ret = Nil
        /\ hist[i].pre.Endpoint = ""
        /\ hist[i].pre.RemoteTimeout = 123 * Second
        /\ hist[i].pre.PushInterval = 0
        /\ hist[i].post.PushInterval = 10 * Second

\* The clients a Config held before its i-th Validate call returned.
EarlierClients(i) == {hist[j].pre.Client : j \in 1..i}

\* C4: when Validate is called with a nil Client and succeeds, a non-empty
\* ProxyURL gives a newly built client whose transport proxies through the
\* parsed ProxyURL and an empty ProxyURL gives http.DefaultClient; after
\* every successful call Client is non-nil.
C4_Client ==
    \A i \in Calls :
        hist[i].ret = Nil =>
            LET pre == hist[i].pre
                post == hist[i].post
            IN  /\ post.Client # NilClient
                /\ (pre.Client = NilClient /\ pre.ProxyURL # <<>>) =>
                       /\ post.Client.kind = "built"
                       /\ post.Client \notin EarlierClients(i) \cup {DefaultClient, PresetClient}
                       /\ post.Client.hasProxy
                       /\ ParseURL(pre.ProxyURL).err = Nil
                       /\ post.Client.proxy = ParseURL(pre.ProxyURL).url
                       /\ pre.ProxyURL = <<"h", ":", "/", "/", "p", ":", "8">> =>
                              /\ post.Client.proxy.Scheme = <<"h">>
                              /\ post.Client.proxy.Host = <<"p", ":", "8">>
                /\ (pre.Client = NilClient /\ pre.ProxyURL = <<>>) =>
                       post.Client = DefaultClient

C4_Witness ==
    \E i \in Calls :
        /\ hist[i].ret = Nil
        /\ hist[i].pre.Client = NilClient
        /\ hist[i].pre.ProxyURL = <<"h", ":", "/", "/", "p", ":", "8">>
        /\ hist[i].post.Client.kind = "built"

\* The fields of a Config other than the three Validate gives defaults to
\* and the Client.
OtherFields(c) ==
    <<c.Name, c.BasicAuth, c.BearerToken, c.BearerTokenFile, c.TLSConfig, c.ProxyURL, c.Headers>>

\* C8, as stated: whenever Validate returns an error, the Config is left
\* exactly as it was before the call.
C8_ErrorLeavesConfig ==
    \A i \in Calls : hist[i].ret # Nil => hist[i].post = hist[i].pre

\* C8, amended: whenever Validate returns ErrTwoBearerTokens or
\* ErrTwoPasswords the Config is left exactly as it was; when it returns the
\* error of parsing ProxyURL, Client is still nil and no other field but
\* Endpoint, RemoteTimeout and PushInterval has changed, and each of these
\* three holds its default if it was unset and its old value otherwise.
C8_ErrorEffects ==
    \A i \in Calls :
        LET pre == hist[i].pre
            post == hist[i].post
        IN  /\ hist[i].ret \in {ErrTwoBearerTokens, ErrTwoPasswords} => post = pre
            /\ hist[i].ret \notin {Nil, ErrTwoBearerTokens, ErrTwoPasswords} =>
                   /\ hist[i].ret \in ParseErrors
                   /\ pre.Client = NilClient
                   /\ post.Client = NilClient
                   /\ OtherFields(post) = OtherFields(pre)
                   /\ post.Endpoint = IF pre.Endpoint = "" THEN "/api/prom/push" ELSE pre.Endpoint
                   /\ post.RemoteTimeout =
                          IF pre.RemoteTimeout = 0 THEN 30 * Second ELSE pre.RemoteTimeout
                   /\ post.PushInterval =
                          IF pre.PushInterval = 0 THEN 10 * Second ELSE pre.PushInterval

C8_Witness ==
    \E i \in Calls :
        /\ hist[i].ret \in ParseErrors
        /\ hist[i].pre.Endpoint = ""
        /\ hist[i].pre.RemoteTimeout = 123 * Second
        /\ hist[i].post.Endpoint = "/api/prom/push"
        /\ hist[i].post.Client = NilClient

\* C9: Validate never modifies Name, BasicAuth, BearerToken,
\* BearerTokenFile, TLSConfig, ProxyURL or Headers, and a Client that was
\* non-nil before the call is the Client after it, even when ProxyURL is
\* non-empty: ProxyURL is then not parsed and no client is built.
C9_Frame ==
    \A i \in Calls :
        LET pre == hist[i].pre
            post == hist[i].post
        IN  /\ OtherFields(post) = OtherFields(pre)
            /\ pre.Client # NilClient =>
                   /\ post.Client = pre.Client
                   /\ hist[i].ret \notin ParseErrors

C9_Witness ==
    \E i \in Calls :
        /\ hist[i].pre.Client = PresetClient
        /\ hist[i].pre.ProxyURL = <<":", "p">>
        /\ hist[i].ret = Nil
        /\ hist[i].post.Client = PresetClient

\* C10: when a call of Validate returns nil, the next call on the resulting
\* Config returns nil and changes no field, the Client included; when a call
\* returns ErrTwoBearerTokens or ErrTwoPasswords, the next call returns the
\* same error.
C10_Idempotent ==
    \A i \in Calls :
        i + 1 \in Calls =>
            /\ hist[i + 1].pre = hist[i].post
            /\ hist[i].ret = Nil =>
                   /\ hist[i + 1].ret = Nil
                   /\ hist[i + 1].post = hist[i].post
            /\ hist[i].ret \in {ErrTwoBearerTokens, ErrTwoPasswords} =>
                   hist[i + 1].ret = hist[i].ret

C10_Witness ==
    /\ Len(hist) >= 2
    /\ hist[1].ret = Nil
    /\ hist[1].pre.Client = NilClient
    /\ hist[1].post.Client.kind = "built"
    /\ hist[2].ret = Nil
    /\ hist[2].post.Client = hist[1].post.Client

(***************************************************************************)
(* Properties of Exporter.addHeaders.  sent[k] is the outcome of the k-th  *)
(* call; Validate changes none of the fields addHeaders reads, so cfg is   *)
(* the Config every call was made with.                                    *)
(***************************************************************************)
Requests == 1..Len(sent)

\* The bytes of a credential.
Bytes(s) == [i \in 1..Len(s) |-> Ord[s[i]]]

\* The value of a base64 character; "=" counts as 0.
SextetValue(ch) ==
    IF ch = "=" THEN 0 ELSE (CHOOSE n \in 0..63 : Base64Alphabet[n + 1] = ch)

\* base64 decoding, written from RFC 4648: four characters give three
\* bytes, less one for each "=" the last group ends with.
RECURSIVE Base64Decode(_)
Base64Decode(e) ==
    IF Len(e) < 4 THEN <<>>
    ELSE LET v0 == SextetValue(e[1])
             v1 == SextetValue(e[2])
             v2 == SextetValue(e[3])
             v3 == SextetValue(e[4])
             group == << v0 * 4 + v1 \div 16, (v1 % 16) * 16 + v2 \div 4, (v2 % 4) * 64 + v3 >>
             n == IF e[3] = "=" THEN 1 ELSE IF e[4] = "=" THEN 2 ELSE 3
         IN  SubSeq(group, 1, n) \o Base64Decode(SubSeq(e, 5, Len(e)))

Username == MapGet(cfg.BasicAuth, "username")

\* The configured password, whichever way it is given.
Password ==
    IF MapGet(cfg.BasicAuth, "password_file") # <<>>
    THEN fs[MapGet(cfg.BasicAuth, "password_file")]
    ELSE MapGet(cfg.BasicAuth, "password")

\* The configured bearer token, whichever way it is given.
Token == IF cfg.BearerTokenFile # <<>> THEN fs[cfg.BearerTokenFile] ELSE cfg.BearerToken

\* h is "Basic " followed by the base64 form of username ":" password.
IsBasicHeader(h) ==
    /\ HasPrefix(h, <<"B", "a", "s", "i", "c", " ">>)
    /\ (Len(h) - 6) % 4 = 0
    /\ Base64Decode(SubSeq(h, 7, Len(h))) = Bytes(Username \o <<":">> \o Password)

\* h is "Bearer " followed by the token.
IsBearerHeader(h) == h = <<"B", "e", "a", "r", "e", "r", " ">> \o Token

\* C5: when addHeaders succeeds the request carries at most one
\* Authorization header: with basic auth it is "Basic " and the base64 form
\* of username ":" password, with a bearer token it is "Bearer " and the
\* token, a credential read from a file counting as the same credential
\* given literally; with neither configured addHeaders succeeds and adds no
\* Authorization header.  (With both modes configured the header is that
\* of one of the two.)
C5_AuthorizationHeader ==
    \A k \in Requests :
        LET basic == ~cfg.BasicAuth.isNil
            bearer == cfg.BearerToken # <<>> \/ cfg.BearerTokenFile # <<>>
            auth == sent[k].auth
        IN  /\ (~basic /\ ~bearer) => (sent[k].err = Nil /\ auth = <<>>)
            /\ sent[k].err = Nil =>
                   /\ Len(auth) <= 1
                   /\ (basic /\ ~bearer) => (Len(auth) = 1 /\ IsBasicHeader(auth[1]))
                   /\ (bearer /\ ~basic) => (Len(auth) = 1 /\ IsBearerHeader(auth[1]))
                   /\ (basic /\ bearer) =>
                          (Len(auth) = 1 /\ (IsBasicHeader(auth[1]) \/ IsBearerHeader(auth[1])))

C5_Witness ==
    \E k \in Requests :
        /\ sent[k].err = Nil
        /\ MapGet(cfg.BasicAuth, "password_file") = PasswordFile
        /\ Username = TestUser
        /\ cfg.BearerToken = <<>> /\ cfg.BearerTokenFile = <<>>
        /\ sent[k].auth = << <<"B", "a", "s", "i", "c", " ", "V", "T", "p", "Q", "V", "w", "=", "=">> >>

UnreadableFile ==
    \/ (~cfg.BasicAuth.isNil /\ MapGet(cfg.BasicAuth, "password_file") \notin {<<>>} \cup DOMAIN fs)
    \/ cfg.BearerTokenFile \notin {<<>>} \cup DOMAIN fs

====
